---- MODULE Spec2Model ----
(***************************************************************************)
(* terminal-ai: the response-interpretation and safety-gating pipeline of  *)
(* src/terminal_ai/agents/translate_command_agent.py, the chat client of   *)
(* io/language_model_client.py, main of cli/command_cli.py and             *)
(* CommandRunner.execute of io/command_runner.py.                          *)
(*                                                                         *)
(* A Python str is a sequence of one-character strings.  A                 *)
(* CommandSuggestion object lives in `heap` and is handled by reference    *)
(* (its index in heap), so that "returns the same object" and "returns a   *)
(* copy" are different outcomes.                                           *)
(***************************************************************************)
EXTENDS Integers, Sequences, FiniteSets, TLC

VARIABLES heap, arg, ret, allow_destructive, raw_response, outcome,
          http_reply, completion, cli_args, cli_env, cli_result,
          self_dry_run, run_pc, process, stdout_pipe, stderr_pipe,
          stdout_acc, stderr_acc, run_result

\* the state of OpenAIChatClient.complete: what urlopen did, and how the
\* call ended
clientVars == <<http_reply, completion>>

\* the state of command_cli.main: the arguments, what the environment holds
\* (the prompt file, the answer on stdin, the child's exit code), the result
cliVars == <<cli_args, cli_env, cli_result>>

\* the state of CommandRunner.execute: self.dry_run, where the call
\* stands, the child (process), the two pipes between child and parent, the
\* lines collected so far, the CommandExecutionResult
runnerVars == <<self_dry_run, run_pc, process, stdout_pipe, stderr_pipe,
                stdout_acc, stderr_acc, run_result>>

vars == <<heap, arg, ret, allow_destructive, raw_response, outcome, clientVars,
          cliVars, runnerVars>>

(***************************************************************************)
(* Bounds of the model.                                                    *)
(***************************************************************************)
\* longest flag cluster after "rm -" that is enumerated
MaxCluster == 3
\* most CommandSuggestion objects alive in one run of the classifier
MaxHeap == 3
\* most lines the child writes, to both streams together
MaxWrites == 4
\* lines an operating-system pipe holds before a write to it blocks
PipeCapacity == 2

(***************************************************************************)
(* str helpers: str.lower, str.strip, and the regex atoms \s, \w, \b.      *)
(***************************************************************************)
Whitespace == {" ", "\t", "\n"}

Uppers == <<"A", "B", "C", "D", "E", "F", "G", "H", "I", "J", "K", "L", "M",
            "N", "O", "P", "Q", "R", "S", "T", "U", "V", "W", "X", "Y", "Z">>

Lowers == <<"a", "b", "c", "d", "e", "f", "g", "h", "i", "j", "k", "l", "m",
            "n", "o", "p", "q", "r", "s", "t", "u", "v", "w", "x", "y", "z">>

Digits == {"0", "1", "2", "3", "4", "5", "6", "7", "8", "9"}

\* the characters \w matches
WordChars ==
    {Uppers[i] : i \in 1..Len(Uppers)} \cup {Lowers[i] : i \in 1..Len(Lowers)}
        \cup Digits \cup {"_"}

LowerChar(c) ==
    IF \E i \in 1..Len(Uppers) : Uppers[i] = c
    THEN Lowers[CHOOSE i \in 1..Len(Uppers) : Uppers[i] = c]
    ELSE c

lower(s) == [i \in 1..Len(s) |-> LowerChar(s[i])]

\* str.strip(): drop the leading and trailing whitespace
strip(s) ==
    LET solid == {i \in 1..Len(s) : s[i] \notin Whitespace}
    IN  IF solid = {} THEN <<>>
        ELSE LET lo == CHOOSE i \in solid : \A j \in solid : i <= j
                 hi == CHOOSE i \in solid : \A j \in solid : j <= i
             IN  SubSeq(s, lo, hi)

\* the literal lit occurs in s starting at index i
LitAt(s, i, lit) ==
    /\ i >= 1
    /\ i + Len(lit) - 1 <= Len(s)
    /\ \A k \in 1..Len(lit) : s[i + k - 1] = lit[k]

\* s[i..j] is a (possibly empty) run of characters of the set cs
RunOf(s, i, j, cs) == \A k \in i..j : s[k] \in cs

IsWordAt(s, i) == i >= 1 /\ i <= Len(s) /\ s[i] \in WordChars

\* \b between s[i-1] and s[i]
WordBoundary(s, i) == IsWordAt(s, i - 1) # IsWordAt(s, i)

\* lit, then \b
LitThenBoundary(s, i, lit) == LitAt(s, i, lit) /\ WordBoundary(s, i + Len(lit))

\* first, then \s+, then second, starting at i; the set of indexes just after
WsJoinedEnds(s, i, first, second) ==
    {e \in 1..(Len(s) + 1) :
        /\ LitAt(s, i, first)
        /\ \E w \in (i + Len(first) + 1)..Len(s) :
              /\ RunOf(s, i + Len(first), w - 1, Whitespace)
              /\ LitAt(s, w, second)
              /\ e = w + Len(second)}

(***************************************************************************)
(* _DESTRUCTIVE_PATTERNS, each as pattern.search(s).                       *)
(***************************************************************************)
\* the character class [f|v|i]
RmFlagClass == {"f", "|", "v", "i"}

\* rm\s+-r[f|v|i]*\b : the flag cluster starts with r
RmFlagEnds(s, i) == WsJoinedEnds(s, i, <<"r", "m">>, <<"-", "r">>)

\* rm\s+-r[f|v|i]*\b
PatRmRecursive(s) ==
    \E i \in 1..Len(s) : \E e \in RmFlagEnds(s, i) : \E b \in e..(Len(s) + 1) :
        RunOf(s, e, b - 1, RmFlagClass) /\ WordBoundary(s, b)

\* mkfs\b
PatMkfs(s) == \E i \in 1..Len(s) : LitThenBoundary(s, i, <<"m", "k", "f", "s">>)

\* dd\s+if= (IGNORECASE)
PatDd(s) ==
    \E i \in 1..Len(s) :
        WsJoinedEnds(lower(s), i, <<"d", "d">>, <<"i", "f", "=">>) # {}

\* shutdown\b|reboot\b|poweroff\b
PatPower(s) ==
    \E i \in 1..Len(s) :
        \/ LitThenBoundary(s, i, <<"s", "h", "u", "t", "d", "o", "w", "n">>)
        \/ LitThenBoundary(s, i, <<"r", "e", "b", "o", "o", "t">>)
        \/ LitThenBoundary(s, i, <<"p", "o", "w", "e", "r", "o", "f", "f">>)

PipeTargets == {<<"b", "a", "s", "h">>, <<"s", "h">>, <<"z", "s", "h">>,
                <<"p", "y", "t", "h", "o", "n">>, <<"c", "u", "r", "l">>}

\* \|\s*(bash|sh|zsh|python|curl)\b
PatPipe(s) ==
    \E i \in 1..Len(s) : \E t \in (i + 1)..Len(s) : \E lit \in PipeTargets :
        /\ s[i] = "|"
        /\ RunOf(s, i + 1, t - 1, Whitespace)
        /\ LitThenBoundary(s, t, lit)

\* sudo\s+
PatSudo(s) ==
    \E i \in 1..Len(s) :
        /\ LitAt(s, i, <<"s", "u", "d", "o">>)
        /\ i + 4 <= Len(s)
        /\ s[i + 4] \in Whitespace

\* chmod\s+777
PatChmod(s) ==
    \E i \in 1..Len(s) :
        WsJoinedEnds(s, i, <<"c", "h", "m", "o", "d">>, <<"7", "7", "7">>) # {}

\* any(pattern.search(s) for pattern in _DESTRUCTIVE_PATTERNS)
MatchesDestructive(s) ==
    \/ PatRmRecursive(s)
    \/ PatMkfs(s)
    \/ PatDd(s)
    \/ PatPower(s)
    \/ PatPipe(s)
    \/ PatSudo(s)
    \/ PatChmod(s)

(***************************************************************************)
(* CommandSuggestion and the classifier.                                   *)
(***************************************************************************)
CommandSuggestion(command, explanation, requires_confirmation, follow_up) ==
    [command |-> command, explanation |-> explanation,
     requires_confirmation |-> requires_confirmation, follow_up |-> follow_up]

\* allocate a new object; the result is the new heap and the new reference
New(h, obj) == [heap |-> Append(h, obj), ref |-> Len(h) + 1]

\* a plausible slip: the flag is set on self, and self is returned
with_confirmation_in_place(h, self, required) ==
    [heap |-> [h EXCEPT ![self].requires_confirmation = required], ref |-> self]

\* a plausible slip: the flag is flipped instead of set
with_confirmation_toggle(h, self, required) ==
    New(h, CommandSuggestion(h[self].command, h[self].explanation,
                             ~h[self].requires_confirmation, h[self].follow_up))

\* CommandSuggestion.with_confirmation(self, required)
with_confirmation(h, self, required) ==
    New(h, CommandSuggestion(h[self].command, h[self].explanation,
                             required, h[self].follow_up))

\* TranslateCommandAgent._enforce_confirmation(suggestion)
_enforce_confirmation(h, suggestion) ==
    LET normalized_cmd == strip(lower(h[suggestion].command))
    IN  IF MatchesDestructive(normalized_cmd)
        THEN with_confirmation(h, suggestion, TRUE)
        ELSE [heap |-> h, ref |-> suggestion]

(***************************************************************************)
(* The model's response text.  It is a sequence of lexical tokens: prose   *)
(* (text with no brace and no backtick), ws (a run of whitespace), fence   *)
(* (```), json (the fence tag), the braces and brackets, and member (one   *)
(* "key": value pair of an object, with its separating comma).  A JSON     *)
(* value is a string, a boolean or null; Absent stands for a missing key.  *)
(***************************************************************************)
Str(s) == [ty |-> "str", s |-> s, b |-> FALSE]

Bool(b) == [ty |-> "bool", s |-> <<>>, b |-> b]

Null == [ty |-> "null", s |-> <<>>, b |-> FALSE]

Absent == [ty |-> "absent", s |-> <<>>, b |-> FALSE]

Tok(t) == [t |-> t, k |-> "", v |-> Absent]

Member(k, v) == [t |-> "member", k |-> k, v |-> v]

Keys == {"command", "explanation", "requires_confirmation", "follow_up"}

\* str(x) of a decoded JSON value
PyStr(v) ==
    CASE v.ty = "str" -> v.s
      [] v.ty = "bool" -> IF v.b THEN <<"T", "r", "u", "e">>
                                 ELSE <<"F", "a", "l", "s", "e">>
      [] OTHER -> <<"N", "o", "n", "e">>

\* bool(x) of a decoded JSON value
PyBool(v) ==
    CASE v.ty = "str" -> v.s # <<>>
      [] v.ty = "bool" -> v.b
      [] OTHER -> FALSE

\* dict.get(key, default)
Get(payload, key, default) ==
    IF payload[key].ty = "absent" THEN default ELSE payload[key]

\* json.loads accepts the candidate: one object of members
JsonValid(c) ==
    /\ Len(c) >= 2
    /\ c[1].t = "lbrace"
    /\ c[Len(c)].t = "rbrace"
    /\ \A k \in 2..(Len(c) - 1) : c[k].t \in {"member", "ws"}

\* the dict json.loads returns: the last member of a key wins
JsonDict(c) ==
    [key \in Keys |->
        LET at == {k \in 1..Len(c) : c[k].t = "member" /\ c[k].k = key}
        IN  IF at = {} THEN Absent
            ELSE c[CHOOSE k \in at : \A j \in at : j <= k].v]

NoDict == [key \in Keys |-> Absent]

Extracted(payload) == [kind |-> "return", exc |-> "", payload |-> payload]

ExtractRaises(exc) == [kind |-> "raise", exc |-> exc, payload |-> NoDict]

\* json.loads(candidate), a JSONDecodeError becoming ValueError
LoadCandidate(candidate) ==
    IF JsonValid(candidate) THEN Extracted(JsonDict(candidate))
    ELSE ExtractRaises("ValueError")

\* the index after the optional json tag and the whitespace that follow a
\* fence at i: where ```(?:json)?\s* ends
AfterFenceOpen(text, i) ==
    LET j == IF i + 1 <= Len(text) /\ text[i + 1].t = "json" THEN i + 2 ELSE i + 1
        rest == {k \in j..Len(text) : text[k].t # "ws"}
    IN  IF rest = {} THEN Len(text) + 1
        ELSE CHOOSE k \in rest : \A m \in rest : k <= m

\* the ends b of a match of ```(?:json)?\s*(\{.*?\})\s*``` that starts at i
FenceMatchEnds(text, i) ==
    LET a == AfterFenceOpen(text, i)
    IN  {b \in (a + 1)..Len(text) :
            /\ text[i].t = "fence"
            /\ text[a].t = "lbrace"
            /\ text[b].t = "rbrace"
            /\ \E f \in (b + 1)..Len(text) :
                  /\ text[f].t = "fence"
                  /\ \A k \in (b + 1)..(f - 1) : text[k].t = "ws"}

\* re.search: the leftmost start, and for it the shortest .*?
FenceSearch(text) ==
    LET starts == {i \in 1..Len(text) : FenceMatchEnds(text, i) # {}}
    IN  IF starts = {} THEN <<>>
        ELSE LET i == CHOOSE x \in starts : \A y \in starts : x <= y
                 ends == FenceMatchEnds(text, i)
                 b == CHOOSE x \in ends : \A y \in ends : x <= y
             IN  SubSeq(text, AfterFenceOpen(text, i), b)

\* str.find / str.rfind of a token; 0 stands for -1
Find(text, t) ==
    LET at == {k \in 1..Len(text) : text[k].t = t}
    IN  IF at = {} THEN 0 ELSE CHOOSE k \in at : \A j \in at : k <= j

RFind(text, t) ==
    LET at == {k \in 1..Len(text) : text[k].t = t}
    IN  IF at = {} THEN 0 ELSE CHOOSE k \in at : \A j \in at : j <= k

\* lines 126-140 of _extract_json_from_markdown, run on text
ExtractFrom(text) ==
    LET markdown_json == FenceSearch(text)
        start == Find(text, "lbrace")
        end == RFind(text, "rbrace")
    IN  IF markdown_json # <<>> THEN LoadCandidate(markdown_json)
        ELSE IF start = 0 \/ end = 0 THEN ExtractRaises("ValueError")
        ELSE LoadCandidate(SubSeq(text, start, end))

\* the names of the module's namespace
ModuleGlobals ==
    {"json", "re", "dataclass", "Path", "Any", "LanguageModelClient",
     "_DESTRUCTIVE_PATTERNS", "CommandRequest", "CommandSuggestion",
     "CommandParsingError", "TranslateCommandAgent",
     "_extract_json_from_markdown", "__all__"}

\* a name can be loaded: it is a local of the function or a module global
\* (no builtin is called text)
NameBound(name, locals) == name \in locals \cup ModuleGlobals

\* a plausible slip: only the fallback reads the unbound name
_extract_json_fallback_unbound(response_text) ==
    IF FenceSearch(response_text) # <<>> THEN ExtractFrom(response_text)
    ELSE ExtractRaises("NameError")

\* _extract_json_from_markdown(response_text): the body reads `text`, which
\* is neither the parameter nor a global, so the first statement raises
_extract_json_from_markdown(response_text) ==
    IF NameBound("text", {"response_text"}) THEN ExtractFrom(response_text)
    ELSE ExtractRaises("NameError")

Returns(h, ref) == [kind |-> "return", exc |-> "", heap |-> h, ref |-> ref]

Raises(h, exc) == [kind |-> "raise", exc |-> exc, heap |-> h, ref |-> 0]

\* TranslateCommandAgent._parse_response(response_text)
_parse_response(h, response_text) ==
    LET e == _extract_json_from_markdown(response_text)
        payload == e.payload
        command == strip(PyStr(Get(payload, "command", Str(<<>>))))
        explanation == strip(PyStr(Get(payload, "explanation", Str(<<>>))))
        follow_up == strip(PyStr(Get(payload, "follow_up", Str(<<>>))))
        requires_confirmation ==
            PyBool(Get(payload, "requires_confirmation", Bool(FALSE)))
    IN  IF e.kind = "raise"
        THEN Raises(h, IF e.exc = "ValueError" THEN "CommandParsingError" ELSE e.exc)
        ELSE IF command = <<>> /\ follow_up = <<>>
        THEN Raises(h, "CommandParsingError")
        ELSE LET n == New(h, CommandSuggestion(command, explanation,
                                               requires_confirmation, follow_up))
             IN  Returns(n.heap, n.ref)

\* the one element of a singleton set
Only(S) == CHOOSE x \in S : TRUE

\* suggest, lines 86-88: suggestion is what _parse_response returned
SuggestTail(suggestion, request_allow_destructive) ==
    IF suggestion.heap[suggestion.ref].command # <<>> /\ ~request_allow_destructive
    THEN LET c == _enforce_confirmation(suggestion.heap, suggestion.ref)
         IN  Returns(c.heap, c.ref)
    ELSE suggestion

\* TranslateCommandAgent.suggest(request), from the raw response on; an
\* exception of _parse_response propagates
suggest(h, request_allow_destructive, raw) ==
    Only({IF p.kind = "raise" THEN p ELSE SuggestTail(p, request_allow_destructive) :
            p \in {_parse_response(h, raw)}})

(***************************************************************************)
(* OpenAIChatClient.complete (io/language_model_client.py).  What urlopen  *)
(* does is a reply: an HTTPError, a URLError, or a body.  A body is known  *)
(* by the JSON document it holds (shape) and, where there is one, by the   *)
(* value under choices[0].message.content: a text (cty = "str") or a       *)
(* value that is no text.                                                  *)
(***************************************************************************)
Reply(http, shape, cty, content) ==
    [http |-> http, shape |-> shape, cty |-> cty, content |-> content]

NoReply == Reply("none", "", "", <<>>)

\* the bodies that are JSON objects, and those that are other JSON values
DictShapes == {"chat", "no_choices", "empty_choices", "no_message", "no_content"}

OtherJsonShapes == {"list", "string", "null"}

\* type(json.loads(body)) of a body that is JSON
JsonType(shape) ==
    CASE shape \in DictShapes -> "dict"
      [] shape = "list" -> "list"
      [] shape = "string" -> "str"
      [] OTHER -> "NoneType"

\* the types with a decode method; json.loads returns none of them
HasDecode(ty) == ty \in {"bytes", "bytearray"}

Completed(text) == [kind |-> "return", exc |-> "", text |-> text]

CompleteRaises(exc) == [kind |-> "raise", exc |-> exc, text |-> <<>>]

NoCompletion == [kind |-> "none", exc |-> "", text |-> <<>>]

\* str.strip() of a text of tokens: the whitespace at both ends goes
TextStrip(text) ==
    LET solid == {i \in 1..Len(text) : text[i].t # "ws"}
    IN  IF solid = {} THEN <<>>
        ELSE LET lo == CHOOSE i \in solid : \A j \in solid : i <= j
                 hi == CHOOSE i \in solid : \A j \in solid : j <= i
             IN  SubSeq(text, lo, hi)

\* complete, lines 79-86: data is the decoded document
ReadMessage(reply) ==
    CASE reply.shape \in {"no_choices", "empty_choices", "no_message", "no_content"}
             -> CompleteRaises("RuntimeError")
      [] reply.shape \in OtherJsonShapes -> CompleteRaises("TypeError")
      [] reply.cty # "str" -> CompleteRaises("RuntimeError")
      [] OTHER -> Completed(TextStrip(reply.content))

\* OpenAIChatClient.complete: line 68 decodes the body and parses it, and
\* line 77 calls decode on the parsed value
complete(reply) ==
    CASE reply.http \in {"HTTPError", "URLError"} -> CompleteRaises("RuntimeError")
      [] reply.shape = "not_json" -> CompleteRaises("JSONDecodeError")
      [] ~HasDecode(JsonType(reply.shape)) -> CompleteRaises("AttributeError")
      [] OTHER -> ReadMessage(reply)

(***************************************************************************)
(* command_cli.main.  The arguments say whether an instruction is there    *)
(* (on the command line or typed at the prompt), whether an API key is     *)
(* there, whether the base URL is local, whether --prompt names a file of  *)
(* its own, and the flags.  The environment says whether load_prompt finds *)
(* the file, what the user answers to the confirmation prompt, and the     *)
(* exit code of the child.  The result is the exit code, or the exception  *)
(* that leaves main, with the events of the run in order.                  *)
(***************************************************************************)
Args(instruction, api_key, is_local, custom_prompt, accept, no_exec, dry_run) ==
    [instruction |-> instruction, api_key |-> api_key, is_local |-> is_local,
     custom_prompt |-> custom_prompt, accept |-> accept, no_exec |-> no_exec,
     dry_run |-> dry_run]

Env(prompt_found, eof, line, child_returncode) ==
    [prompt_found |-> prompt_found, eof |-> eof, line |-> line,
     child_returncode |-> child_returncode]

NoArgs == Args(FALSE, FALSE, FALSE, FALSE, FALSE, FALSE, FALSE)

NoEnv == Env(FALSE, TRUE, <<>>, 0)

NotRun == [kind |-> "none", code |-> 0, exc |-> "", events |-> <<>>]

Exits(code, events) == [kind |-> "return", code |-> code, exc |-> "", events |-> events]

MainRaises(exc, events) == [kind |-> "raise", code |-> 0, exc |-> exc, events |-> events]

\* suggest was not called
NotCalled(h) == [kind |-> "none", exc |-> "", heap |-> h, ref |-> 0]

\* TranslateCommandAgent.suggest with OpenAIChatClient as its client: an
\* exception of complete propagates
agent_suggest(h, request_allow_destructive, reply) ==
    Only({IF c.kind = "raise" THEN Raises(h, c.exc)
          ELSE suggest(h, request_allow_destructive, c.text) :
            c \in {complete(reply)}})

\* main, lines 122-127: input(...).strip().lower() in {"y", "yes"}
Affirmative(env) ==
    ~env.eof /\ strip(lower(env.line)) \in {<<"y">>, <<"y", "e", "s">>}

\* CommandRunner.execute as main sees it: the exit code
ExecuteReturncode(args, env) == IF args.dry_run THEN 0 ELSE env.child_returncode

\* main, lines 107-141: s is the suggestion agent.suggest returned
MainAfterSuggest(s, args, env) ==
    LET suggestion == s.heap[s.ref]
        shown == <<"suggest", "command">>
    IN  IF suggestion.follow_up # <<>> /\ suggestion.command = <<>>
        THEN Exits(0, <<"suggest", "follow_up">>)
        ELSE IF args.no_exec THEN Exits(0, shown)
        ELSE IF args.accept \/ ~suggestion.requires_confirmation
        THEN Exits(ExecuteReturncode(args, env), shown \o <<"execute">>)
        ELSE IF Affirmative(env)
        THEN Exits(ExecuteReturncode(args, env), shown \o <<"prompt", "execute">>)
        ELSE Exits(0, shown \o <<"prompt", "aborted">>)

\* main, lines 98-105: s is how agent.suggest ended
MainOnSuggest(s, args, env) ==
    IF s.kind = "raise"
    THEN IF s.exc = "CommandParsingError" THEN Exits(2, <<"suggest">>)
         ELSE Exits(3, <<"suggest">>)
    ELSE MainAfterSuggest(s, args, env)

\* main reaches agent.suggest: lines 62-84 let it through
ReachesSuggest(args, env) ==
    /\ args.instruction
    /\ args.api_key \/ args.is_local
    /\ env.prompt_found \/ ~args.custom_prompt

\* how agent.suggest ends in main, if main calls it
MainSuggestion(h, args, env, request_allow_destructive, reply) ==
    IF ReachesSuggest(args, env)
    THEN agent_suggest(h, request_allow_destructive, reply)
    ELSE NotCalled(h)

\* command_cli.main
main(h, args, env, request_allow_destructive, reply) ==
    IF ~args.instruction THEN Exits(1, <<>>)
    ELSE IF ~args.api_key /\ ~args.is_local THEN Exits(1, <<>>)
    ELSE IF ~env.prompt_found /\ args.custom_prompt
    THEN MainRaises("FileNotFoundError", <<>>)
    ELSE Only({MainOnSuggest(s, args, env) :
                 s \in {agent_suggest(h, request_allow_destructive, reply)}})

(***************************************************************************)
(* CommandRunner.execute (io/command_runner.py): the parent and the child  *)
(* it starts with Popen, joined by a stdout pipe and a stderr pipe.  A     *)
(* line the child writes is named by its position in the child's script.   *)
(***************************************************************************)
\* the child: its state ("none" before Popen, "running", "closed" once its
\* ends of the pipes are closed, "exited" once it can be reaped), the
\* streams it writes to in order, how many writes are done, its exit code
Process(state, script, pos, exit_code) ==
    [state |-> state, script |-> script, pos |-> pos, exit_code |-> exit_code]

NoProcess == Process("none", <<>>, 0, 0)

CommandExecutionResult(returncode, stdout, stderr) ==
    [done |-> TRUE, returncode |-> returncode, stdout |-> stdout,
     stderr |-> stderr]

NoResult == [done |-> FALSE, returncode |-> 0, stdout |-> <<>>, stderr |-> <<>>]

\* execute is not in use
RunnerIdle ==
    /\ self_dry_run = FALSE
    /\ run_pc = "idle"
    /\ process = NoProcess
    /\ stdout_pipe = <<>>
    /\ stderr_pipe = <<>>
    /\ stdout_acc = <<>>
    /\ stderr_acc = <<>>
    /\ run_result = NoResult

(***************************************************************************)
(* The suggestions the classifier is applied to.                           *)
(***************************************************************************)
FlagLetters == {"r", "f", "v", "i"}

\* every flag cluster of 1..MaxCluster letters
Clusters == UNION {[1..n -> FlagLetters] : n \in 1..MaxCluster}

\* rm, whitespace, a dash and a flag cluster, alone or with an operand
RmCommands ==
    {<<"r", "m">> \o ws \o <<"-">> \o c \o tl :
        ws \in {<<" ">>, <<" ", "\t">>}, c \in Clusters,
        tl \in {<<>>, <<" ", "x">>}}

OtherCommands ==
    { <<>>,
      <<"l", "s", " ", "-", "l", "a">>,
      <<"w", "h", "o", "a", "m", "i">>,
      <<"r", "m", " ", "x">>,
      <<"r", "m", " ", "-", "r", "f", " ", "~", "/", "c">>,
      <<" ", "R", "M", " ", "-", "R", "F", " ", "/", " ">>,
      <<"s", "u", "d", "o", " ", "r", "m", " ", "-", "r", "f", " ", "/">>,
      <<"c", "u", "r", "l", " ", "x", " ", "|", " ", "s", "h">>,
      <<"c", "h", "m", "o", "d", " ", "7", "7", "7", " ", "/", "e">>,
      <<"m", "k", "f", "s", " ", "/", "d">>,
      <<"D", "D", " ", "I", "F", "=", "x">>,
      <<"r", "e", "b", "o", "o", "t">> }

Commands == RmCommands \cup OtherCommands

Explanations == {<<>>, <<"w", "h", "y">>}

FollowUps == {<<>>, <<"w", "h", "i", "c", "h", "?">>}

Suggestions ==
    {CommandSuggestion(c, e, rc, f) :
        c \in Commands, e \in Explanations, rc \in BOOLEAN, f \in FollowUps}

\* no call made yet; the reference 0 is no object
NoOutcome == [kind |-> "none", exc |-> "", ref |-> 0]

(***************************************************************************)
(* SpecClassify: _enforce_confirmation called on a suggestion, and again   *)
(* on what it returned.                                                    *)
(***************************************************************************)
InitClassify ==
    /\ \E s \in Suggestions : heap = <<s>>
    /\ arg = 0
    /\ ret = 0
    /\ allow_destructive = FALSE
    /\ raw_response = <<>>
    /\ outcome = NoOutcome
    /\ http_reply = NoReply
    /\ completion = NoCompletion
    /\ cli_args = NoArgs
    /\ cli_env = NoEnv
    /\ cli_result = NotRun
    /\ RunnerIdle

EnforceConfirmation ==
    /\ Len(heap) < MaxHeap
    /\ LET a == IF ret = 0 THEN 1 ELSE ret
           r == _enforce_confirmation(heap, a)
       IN  /\ heap' = r.heap
           /\ arg' = a
           /\ ret' = r.ref
    /\ UNCHANGED <<allow_destructive, raw_response, outcome, clientVars, cliVars,
                   runnerVars>>

NextClassify == EnforceConfirmation

SpecClassify == InitClassify /\ [][NextClassify]_vars

(***************************************************************************)
(* The responses the completion collaborator returns.                      *)
(***************************************************************************)
CommandTexts ==
    { <<>>,
      <<" ", " ">>,
      <<"l", "s", " ", "-", "l", "a">>,
      <<" ", "l", "s", " ", "-", "l", "a", "\n">>,
      <<"w", "h", "o", "a", "m", "i">>,
      <<"r", "m", " ", "-", "r", "f", " ", "~", "/", "c">>,
      <<"s", "u", "d", "o", " ", "r", "m", " ", "-", "r", "f", " ", "/">>,
      <<"c", "u", "r", "l", " ", "x", " ", "|", " ", "s", "h">>,
      <<"c", "h", "m", "o", "d", " ", "7", "7", "7", " ", "/", "e">> }

ExplanationTexts == {<<"w", "h", "y">>, <<" ", "w", "h", "y", " ">>}

FollowUpTexts == {<<>>, <<" ">>, <<"w", "h", "i", "c", "h", "?">>,
                  <<" ", "w", "h", "i", "c", "h", "?", " ">>}

\* the members of key k: one per value, or none when the key is absent
MembersOf(k, values) == {<<>>} \cup {<<Member(k, v)>> : v \in values}

\* the well-formed JSON objects
Objects ==
    {<<Tok("lbrace")>> \o c \o e \o r \o f \o <<Tok("rbrace")>> :
        c \in MembersOf("command", {Str(s) : s \in CommandTexts}),
        e \in MembersOf("explanation", {Str(s) : s \in ExplanationTexts}),
        r \in MembersOf("requires_confirmation", {Bool(b) : b \in BOOLEAN}),
        f \in MembersOf("follow_up", {Str(s) : s \in FollowUpTexts})}

\* ```json J ```
FencedJson(J) ==
    <<Tok("fence"), Tok("json"), Tok("ws")>> \o J \o <<Tok("ws"), Tok("fence")>>

\* ``` J ```
FencedPlain(J) == <<Tok("fence"), Tok("ws")>> \o J \o <<Tok("ws"), Tok("fence")>>

\* prose, then ```json J ```
ProseFencedJson(J) == <<Tok("prose"), Tok("ws")>> \o FencedJson(J)

FencedForms(J) == {FencedJson(J), FencedPlain(J), ProseFencedJson(J)}

\* responses from which no JSON object can be obtained
NoJsonResponses ==
    { <<>>,
      <<Tok("prose")>>,
      <<Tok("lbracket"), Tok("prose"), Tok("rbracket")>>,
      <<Tok("prose"), Tok("lbrace")>>,
      <<Tok("rbrace"), Tok("prose")>>,
      <<Tok("rbrace"), Tok("lbrace")>>,
      <<Tok("lbrace"), Tok("prose"), Tok("rbrace")>>,
      <<Tok("fence"), Tok("json"), Tok("ws"), Tok("lbrace"), Tok("prose"),
        Tok("rbrace"), Tok("ws"), Tok("fence"), Tok("ws"), Tok("lbrace"),
        Member("command", Str(<<"l", "s">>)), Tok("rbrace")>> }

Responses ==
    Objects \cup UNION {FencedForms(J) : J \in Objects} \cup NoJsonResponses

(***************************************************************************)
(* Spec: a run of the program makes one request through                   *)
(* TranslateCommandAgent.suggest (command_cli.main, line 99).              *)
(***************************************************************************)
Init ==
    /\ heap = <<>>
    /\ arg = 0
    /\ ret = 0
    /\ allow_destructive = FALSE
    /\ raw_response = <<>>
    /\ outcome = NoOutcome
    /\ http_reply = NoReply
    /\ completion = NoCompletion
    /\ cli_args = NoArgs
    /\ cli_env = NoEnv
    /\ cli_result = NotRun
    /\ RunnerIdle

Suggest ==
    /\ outcome.kind = "none"
    /\ \E allow \in BOOLEAN, raw \in Responses :
        LET r == suggest(heap, allow, raw)
        IN  /\ allow_destructive' = allow
            /\ raw_response' = raw
            /\ heap' = r.heap
            /\ outcome' = [kind |-> r.kind, exc |-> r.exc, ref |-> r.ref]
            /\ UNCHANGED <<arg, ret, clientVars, cliVars, runnerVars>>

Next == Suggest

Spec == Init /\ [][Next]_vars

(***************************************************************************)
(* What a state of Spec says about its request.                            *)
(***************************************************************************)
\* suggest was called and has ended
Called == outcome.kind # "none"

Returned == outcome.kind = "return"

RaisedParsingError == outcome.kind = "raise" /\ outcome.exc = "CommandParsingError"

\* the suggestion suggest returned
Result == heap[outcome.ref]

\* the JSON object the response text carries, if any
Carried == ExtractFrom(raw_response)

HasObject == Carried.kind = "return"

\* a field of the carried object, as a trimmed string
Trimmed(key) == strip(PyStr(Get(Carried.payload, key, Str(<<>>))))

\* what the model claimed about confirmation
Claimed == PyBool(Get(Carried.payload, "requires_confirmation", Bool(FALSE)))

CarriedIsDestructive == MatchesDestructive(strip(lower(Trimmed("command"))))

\* the object has the three string fields and the boolean field
FullyTyped ==
    /\ HasObject
    /\ \A key \in {"command", "explanation", "follow_up"} :
           Carried.payload[key].ty = "str"
    /\ Carried.payload["requires_confirmation"].ty = "bool"

\* the outcome of a call as a value: the suggestion's fields, or the error
ResultValue(r) ==
    IF r.kind = "return" THEN <<"return", r.heap[r.ref]>> ELSE <<r.kind, r.exc>>

OutcomeValue == ResultValue([kind |-> outcome.kind, exc |-> outcome.exc,
                             heap |-> heap, ref |-> outcome.ref])

(***************************************************************************)
(* C1.  A response whose command is non-empty and matches a destructive    *)
(* pattern, with allow_destructive = false: suggest returns a suggestion   *)
(* whose requires_confirmation is true, whatever the model claimed.        *)
(***************************************************************************)
C1_DestructiveRequiresConfirmation ==
    (/\ Called
     /\ ~allow_destructive
     /\ HasObject
     /\ Trimmed("command") # <<>>
     /\ CarriedIsDestructive)
        => (Returned /\ Result.requires_confirmation)

(***************************************************************************)
(* C2.  A response from which no JSON object can be obtained: suggest      *)
(* fails with CommandParsingError, and with no other kind of error.        *)
(***************************************************************************)
C2_NoJsonRaisesParsingError ==
    (Called /\ ~HasObject) => RaisedParsingError

(***************************************************************************)
(* C3.  A response whose command and follow_up are both empty,             *)
(* whitespace-only or absent fails with CommandParsingError; and every     *)
(* suggestion suggest returns has a non-empty command or follow_up.        *)
(***************************************************************************)
C3_BothEmptyRaisesParsingError ==
    /\ (Called /\ HasObject /\ Trimmed("command") = <<>> /\ Trimmed("follow_up") = <<>>)
           => RaisedParsingError
    /\ Returned => (Result.command # <<>> \/ Result.follow_up # <<>>)

(***************************************************************************)
(* C4.  A valid object with string command (non-empty after trimming),     *)
(* explanation and follow_up and a boolean requires_confirmation: a        *)
(* suggestion is returned whose three strings are the payload's, trimmed,  *)
(* and whose requires_confirmation is the payload's boolean (through       *)
(* suggest: where the classifier does not force it).                       *)
(***************************************************************************)
C4_ValidPayloadRoundTrips ==
    (Called /\ FullyTyped /\ Trimmed("command") # <<>>)
        => /\ Returned
           /\ Result.command = Trimmed("command")
           /\ Result.explanation = Trimmed("explanation")
           /\ Result.follow_up = Trimmed("follow_up")
           /\ (allow_destructive \/ ~CarriedIsDestructive)
                  => Result.requires_confirmation = Claimed

(***************************************************************************)
(* C7.  A response whose object has an empty command and a non-empty       *)
(* follow_up: suggest returns, without error, a suggestion with an empty   *)
(* command, the trimmed follow-up, and requires_confirmation as claimed.   *)
(***************************************************************************)
C7_FollowUpOnlyReturns ==
    (Called /\ HasObject /\ Trimmed("command") = <<>> /\ Trimmed("follow_up") # <<>>)
        => /\ Returned
           /\ Result.command = <<>>
           /\ Result.follow_up = Trimmed("follow_up")
           /\ Result.requires_confirmation = Claimed

C6_ClassifierOnlyUpgrades ==
    [][EnforceConfirmation =>
          /\ heap'[arg'] = heap[arg']
          /\ heap'[ret'].command = heap[arg'].command
          /\ heap'[ret'].explanation = heap[arg'].explanation
          /\ heap'[ret'].follow_up = heap[arg'].follow_up
          /\ heap[arg'].requires_confirmation => heap'[ret'].requires_confirmation
          /\ (heap'[ret'].requires_confirmation # heap[arg'].requires_confirmation)
                 => (~heap[arg'].requires_confirmation
                     /\ heap'[ret'].requires_confirmation)]_vars

\* a copy was returned with the flag raised, and the input still has it down
C6_Witness ==
    /\ arg = 1
    /\ ret # 0
    /\ ret # arg
    /\ ~heap[arg].requires_confirmation
    /\ heap[ret].requires_confirmation

\* C9.  Classification is idempotent: _enforce_confirmation applied to what
\* _enforce_confirmation returned yields a suggestion equal to it in all
\* four fields.
C9_ClassifierIdempotent ==
    [][(EnforceConfirmation /\ ret # 0) => heap'[ret'] = heap[ret]]_vars

\* the classifier ran on a copy it had returned itself
C9_Witness ==
    /\ arg > 1
    /\ ret > arg
    /\ heap[ret] = heap[arg]
    /\ MatchesDestructive(strip(lower(heap[arg].command)))

\* a flag cluster with r once, and with at least one of f, v, i
MixedCluster(c) ==
    /\ Cardinality({k \in 1..Len(c) : c[k] = "r"}) = 1
    /\ Len(c) >= 2

\* C10.  Every command in which rm is followed by whitespace and a
\* dash-prefixed flag cluster that has r together with f, v, i in any order
\* (-rf, -fr, -vrf, -ir) is classified as requiring confirmation.
C10_AnyOrderRmClusterFlagged ==
    (/\ arg = 1
     /\ ret # 0
     /\ \E ws \in {<<" ">>, <<" ", "\t">>}, tl \in {<<>>, <<" ", "x">>} :
           \E c \in {x \in Clusters : MixedCluster(x)} :
              heap[arg].command = <<"r", "m">> \o ws \o <<"-">> \o c \o tl)
        => heap[ret].requires_confirmation

(***************************************************************************)
(* SpecClient: one call of OpenAIChatClient.complete.                      *)
(***************************************************************************)
\* the message texts: the responses, bare and with whitespace around
Contents ==
    Responses \cup {<<Tok("ws")>> \o r \o <<Tok("ws"), Tok("ws")>> : r \in Responses}

Replies ==
    {Reply("HTTPError", "", "", <<>>), Reply("URLError", "", "", <<>>)}
        \cup {Reply("ok", "chat", "str", c) : c \in Contents}
        \cup {Reply("ok", "chat", cty, <<>>) : cty \in {"null", "number", "list"}}
        \cup {Reply("ok", s, "", <<>>) :
                 s \in (DictShapes \ {"chat"}) \cup OtherJsonShapes \cup {"not_json"}}

InitClient ==
    /\ heap = <<>>
    /\ arg = 0
    /\ ret = 0
    /\ allow_destructive = FALSE
    /\ raw_response = <<>>
    /\ outcome = NoOutcome
    /\ http_reply = NoReply
    /\ completion = NoCompletion
    /\ cli_args = NoArgs
    /\ cli_env = NoEnv
    /\ cli_result = NotRun
    /\ RunnerIdle

Complete ==
    /\ completion.kind = "none"
    /\ \E reply \in Replies :
          /\ http_reply' = reply
          /\ completion' = complete(reply)
    /\ UNCHANGED <<heap, arg, ret, allow_destructive, raw_response, outcome, cliVars,
                   runnerVars>>

NextClient == Complete

SpecClient == InitClient /\ [][NextClient]_vars

\* the HTTP call succeeded with {"choices": [{"message": {"content": s}}]},
\* s a string
WellShapedReply ==
    http_reply.http = "ok" /\ http_reply.shape = "chat" /\ http_reply.cty = "str"

(***************************************************************************)
(* C11.  When the HTTP call succeeds with a body of the shape              *)
(* {"choices": [{"message": {"content": s}}]}, s a string, complete        *)
(* returns s stripped and raises nothing; it fails only on a transport or  *)
(* provider failure or a body of another shape, and then with RuntimeError.*)
(***************************************************************************)
C11_CompleteReturnsStrippedContent ==
    /\ (completion.kind # "none" /\ WellShapedReply)
           => (completion.kind = "return"
               /\ completion.text = TextStrip(http_reply.content))
    /\ completion.kind = "raise"
           => (completion.exc = "RuntimeError" /\ ~WellShapedReply)

(***************************************************************************)
(* SpecMain: one run of command_cli.main.                                  *)
(***************************************************************************)
\* how the program is started: fine, no instruction, no key for a remote
\* URL, no key for a local URL, the default prompt file missing, a prompt
\* file of the user's missing
Launches ==
    { <<TRUE, TRUE, FALSE, FALSE, TRUE>>,
      <<FALSE, TRUE, FALSE, FALSE, TRUE>>,
      <<TRUE, FALSE, FALSE, FALSE, TRUE>>,
      <<TRUE, FALSE, TRUE, FALSE, TRUE>>,
      <<TRUE, TRUE, FALSE, FALSE, FALSE>>,
      <<TRUE, TRUE, FALSE, TRUE, FALSE>> }

\* what the user types at the confirmation prompt (besides end of file)
AnswerLines ==
    { <<"y">>, <<" ", "Y", "E", "S", "\n">>, <<"n">>, <<>>, <<"y", "e", "p">> }

MainCommandTexts ==
    { <<>>,
      <<"l", "s", " ", "-", "l", "a">>,
      <<"r", "m", " ", "-", "r", "f", " ", "~", "/", "c">>,
      <<"s", "u", "d", "o", " ", "r", "m", " ", "-", "r", "f", " ", "/">> }

\* the objects the model answers with in a run of main
MainObjects ==
    {<<Tok("lbrace")>> \o c \o e \o r \o f \o <<Tok("rbrace")>> :
        c \in {<<Member("command", Str(s))>> : s \in MainCommandTexts},
        e \in {<<Member("explanation", Str(<<"w", "h", "y">>))>>},
        r \in MembersOf("requires_confirmation", {Bool(b) : b \in BOOLEAN}),
        f \in MembersOf("follow_up", {Str(<<"w", "h", "i", "c", "h", "?">>)})}

MainReplies ==
    {Reply("HTTPError", "", "", <<>>), Reply("ok", "no_choices", "", <<>>)}
        \cup {Reply("ok", "chat", "str", c) : c \in MainObjects}
        \cup {Reply("ok", "chat", "str", <<Tok("prose")>>)}

InitMain ==
    /\ heap = <<>>
    /\ arg = 0
    /\ ret = 0
    /\ allow_destructive = FALSE
    /\ raw_response = <<>>
    /\ outcome = NoOutcome
    /\ http_reply = NoReply
    /\ completion = NoCompletion
    /\ cli_args = NoArgs
    /\ cli_env = NoEnv
    /\ cli_result = NotRun
    /\ RunnerIdle

Main ==
    /\ cli_result.kind = "none"
    /\ \E l \in Launches, accept \in BOOLEAN, no_exec \in BOOLEAN,
          dry_run \in BOOLEAN, allow \in BOOLEAN, reply \in MainReplies,
          eof \in BOOLEAN, line \in AnswerLines, rc \in {0, 1} :
          \E args \in {Args(l[1], l[2], l[3], l[4], accept, no_exec, dry_run)},
             env \in {Env(l[5], eof, IF eof THEN <<>> ELSE line, rc)} :
             \E s \in {MainSuggestion(heap, args, env, allow, reply)},
                c \in {complete(reply)} :
                /\ cli_args' = args
                /\ cli_env' = env
                /\ allow_destructive' = allow
                /\ http_reply' = reply
                /\ completion' = IF s.kind = "none" THEN NoCompletion ELSE c
                /\ raw_response' = IF s.kind = "none" THEN <<>> ELSE c.text
                /\ heap' = s.heap
                /\ outcome' = [kind |-> s.kind, exc |-> s.exc, ref |-> s.ref]
                /\ cli_result' = main(heap, args, env, allow, reply)
    /\ UNCHANGED <<arg, ret, runnerVars>>

NextMain == Main

SpecMain == InitMain /\ [][NextMain]_vars

(***************************************************************************)
(* What a state of SpecMain says about its run.                            *)
(***************************************************************************)
Ran == cli_result.kind # "none"

\* how many times CommandRunner.execute was invoked
Executions ==
    Cardinality({i \in 1..Len(cli_result.events) : cli_result.events[i] = "execute"})

\* the object the model's message carries, if any
MainCarried == ExtractFrom(TextStrip(http_reply.content))

\* the model answered with a non-empty command that a destructive pattern
\* matches
AnsweredDestructive ==
    /\ WellShapedReply
    /\ MainCarried.kind = "return"
    /\ LET command == strip(PyStr(Get(MainCarried.payload, "command", Str(<<>>))))
       IN  command # <<>> /\ MatchesDestructive(strip(lower(command)))

(***************************************************************************)
(* C12.  In a run of main, CommandRunner.execute is invoked at most once,  *)
(* and only after suggest returned a suggestion whose command is not       *)
(* empty, without --no-exec, and with --accept, or no confirmation         *)
(* required, or an answer of y or yes.  And a run whose model answers with *)
(* a destructive command, with neither --allow-destructive nor --accept,   *)
(* and whose user answers otherwise (or not at all) ends in "Aborted."     *)
(* with exit code 0 and no execution.                                      *)
(***************************************************************************)
C12_ExecuteOnlyAfterConfirmation ==
    /\ Executions <= 1
    /\ Executions = 1
           => /\ outcome.kind = "return"
              /\ heap[outcome.ref].command # <<>>
              /\ ~cli_args.no_exec
              /\ \/ cli_args.accept
                 \/ ~heap[outcome.ref].requires_confirmation
                 \/ Affirmative(cli_env)
    /\ (/\ Ran
        /\ ReachesSuggest(cli_args, cli_env)
        /\ AnsweredDestructive
        /\ ~allow_destructive
        /\ ~cli_args.accept
        /\ ~cli_args.no_exec
        /\ ~Affirmative(cli_env))
           => /\ cli_result.kind = "return"
              /\ cli_result.code = 0
              /\ Executions = 0
              /\ cli_result.events # <<>>
              /\ cli_result.events[Len(cli_result.events)] = "aborted"

(***************************************************************************)
(* Confirmation by default, in a state of Spec.                            *)
(***************************************************************************)
\* the response carries an object that suggest has to turn into a
\* suggestion: a command or a follow-up is there
Suggestable ==
    /\ HasObject
    /\ (Trimmed("command") # <<>> \/ Trimmed("follow_up") # <<>>)

\* the response states the requires_confirmation key
StatesConfirmation == Carried.payload["requires_confirmation"].ty # "absent"

\* the response states that no confirmation is needed
StatesNoConfirmation ==
    /\ StatesConfirmation
    /\ ~PyBool(Carried.payload["requires_confirmation"])

(***************************************************************************)
(* C13.  With allow_destructive = false, the suggestion suggest returns    *)
(* has requires_confirmation false only if the response states the         *)
(* requires_confirmation key with a false value and no destructive pattern *)
(* matches the command; and a response that carries a command or a         *)
(* follow-up but omits requires_confirmation yields a suggestion that      *)
(* requires confirmation.                                                  *)
(***************************************************************************)
C13_ConfirmationRequiredByDefault ==
    /\ (Returned /\ ~allow_destructive /\ ~Result.requires_confirmation)
           => (HasObject /\ StatesNoConfirmation /\ ~CarriedIsDestructive)
    /\ (Called /\ ~allow_destructive /\ Suggestable /\ ~StatesConfirmation)
           => (Returned /\ Result.requires_confirmation)

(***************************************************************************)
(* SpecRunner: one call of CommandRunner.execute, interleaved with the     *)
(* child it starts.                                                        *)
(***************************************************************************)
Streams == {"out", "err"}

\* what the child does before it exits: a line to stdout or to stderr, in
\* any order, up to MaxWrites of them
Scripts == UNION {[1..n -> Streams] : n \in 0..MaxWrites}

ExitCodes == {0, 1}

InitRunner ==
    /\ heap = <<>>
    /\ arg = 0
    /\ ret = 0
    /\ allow_destructive = FALSE
    /\ raw_response = <<>>
    /\ outcome = NoOutcome
    /\ http_reply = NoReply
    /\ completion = NoCompletion
    /\ cli_args = NoArgs
    /\ cli_env = NoEnv
    /\ cli_result = NotRun
    /\ self_dry_run \in BOOLEAN
    /\ run_pc = "execute"
    /\ \E script \in Scripts, exit_code \in ExitCodes :
           process = Process("none", script, 0, exit_code)
    /\ stdout_pipe = <<>>
    /\ stderr_pipe = <<>>
    /\ stdout_acc = <<>>
    /\ stderr_acc = <<>>
    /\ run_result = NoResult

otherVars == <<heap, arg, ret, allow_destructive, raw_response, outcome,
               clientVars, cliVars>>

\* lines 40-61: the dry run returns at once; otherwise Popen starts the child
Execute ==
    /\ run_pc = "execute"
    /\ IF self_dry_run
       THEN /\ run_pc' = "returned"
            /\ run_result' = CommandExecutionResult(0, <<>>, <<>>)
            /\ UNCHANGED process
       ELSE /\ run_pc' = "readline"
            /\ process' = [process EXCEPT !.state = "running"]
            /\ UNCHANGED run_result
    /\ UNCHANGED <<self_dry_run, stdout_pipe, stderr_pipe, stdout_acc, stderr_acc,
                   otherVars>>

\* the write end of a pipe is open while the child has not closed it
WriteEndOpen == process.state = "running"

\* lines 65-71: process.stdout.readline() waits for a line or for end of
\* file; a line is printed and collected, an empty result goes on to poll
Readline ==
    /\ run_pc = "readline"
    /\ \/ /\ stdout_pipe # <<>>
          /\ stdout_acc' = Append(stdout_acc, Head(stdout_pipe))
          /\ stdout_pipe' = Tail(stdout_pipe)
          /\ UNCHANGED run_pc
       \/ /\ stdout_pipe = <<>>
          /\ ~WriteEndOpen
          /\ run_pc' = "poll"
          /\ UNCHANGED <<stdout_pipe, stdout_acc>>
    /\ UNCHANGED <<self_dry_run, process, stderr_pipe, stderr_acc, run_result,
                   otherVars>>

\* line 66: process.poll() is not None once the child has exited
Poll ==
    /\ run_pc = "poll"
    /\ run_pc' = IF process.state = "exited" THEN "communicate" ELSE "readline"
    /\ UNCHANGED <<self_dry_run, process, stdout_pipe, stderr_pipe, stdout_acc,
                   stderr_acc, run_result, otherVars>>

\* lines 73-83: communicate() reads stderr to its end and waits for the
\* child; the result carries the exit code and what was collected
Communicate ==
    /\ run_pc = "communicate"
    /\ process.state = "exited"
    /\ stderr_acc' = stderr_acc \o stderr_pipe
    /\ stderr_pipe' = <<>>
    /\ run_result' = CommandExecutionResult(process.exit_code, stdout_acc,
                                            stderr_acc')
    /\ run_pc' = "returned"
    /\ UNCHANGED <<self_dry_run, process, stdout_pipe, stdout_acc, otherVars>>

\* the stream the child writes to next, "" when its script is done
NextStream ==
    IF process.pos < Len(process.script) THEN process.script[process.pos + 1]
                                        ELSE ""

PipeFull(pipe) == Len(pipe) >= PipeCapacity

\* the child writes its next line; a write to a full pipe waits
ChildWrite ==
    /\ process.state = "running"
    /\ \/ /\ NextStream = "out"
          /\ ~PipeFull(stdout_pipe)
          /\ stdout_pipe' = Append(stdout_pipe, process.pos + 1)
          /\ UNCHANGED stderr_pipe
       \/ /\ NextStream = "err"
          /\ ~PipeFull(stderr_pipe)
          /\ stderr_pipe' = Append(stderr_pipe, process.pos + 1)
          /\ UNCHANGED stdout_pipe
    /\ process' = [process EXCEPT !.pos = @ + 1]
    /\ UNCHANGED <<self_dry_run, run_pc, stdout_acc, stderr_acc, run_result,
                   otherVars>>

\* the child is done writing: ending, it closes its ends of the pipes
ChildClose ==
    /\ process.state = "running"
    /\ NextStream = ""
    /\ process' = [process EXCEPT !.state = "closed"]
    /\ UNCHANGED <<self_dry_run, run_pc, stdout_pipe, stderr_pipe, stdout_acc,
                   stderr_acc, run_result, otherVars>>

\* the child has ended and can be reaped
ChildExit ==
    /\ process.state = "closed"
    /\ process' = [process EXCEPT !.state = "exited"]
    /\ UNCHANGED <<self_dry_run, run_pc, stdout_pipe, stderr_pipe, stdout_acc,
                   stderr_acc, run_result, otherVars>>

NextRunner ==
    \/ Execute
    \/ Readline
    \/ Poll
    \/ Communicate
    \/ ChildWrite
    \/ ChildClose
    \/ ChildExit

SpecRunner == InitRunner /\ [][NextRunner]_vars

(***************************************************************************)
(* What a state of SpecRunner says about the call.                         *)
(***************************************************************************)
\* the lines of the script that go to a stream, in the order written
LinesTo(stream) ==
    LET idx == {i \in 1..Len(process.script) : process.script[i] = stream}
    IN  [k \in 1..Cardinality(idx) |->
            CHOOSE i \in idx : Cardinality({j \in idx : j < i}) = k - 1]

\* the parent waits in readline: no line in the stdout pipe, no end of file
ParentBlockedOnStdout ==
    /\ run_pc = "readline"
    /\ stdout_pipe = <<>>
    /\ WriteEndOpen

\* the child waits in a write to the full stderr pipe
ChildBlockedOnStderr ==
    /\ process.state = "running"
    /\ NextStream = "err"
    /\ PipeFull(stderr_pipe)

(***************************************************************************)
(* C14.  In a call of execute with dry_run = false, whose child exits      *)
(* after a finite number of writes: the parent is never blocked reading    *)
(* the stdout pipe while the child is blocked writing to the full stderr   *)
(* pipe, some step of the parent or of the child is possible until execute *)
(* has returned, and what execute returns is the child's exit code with    *)
(* all the lines the child wrote to stdout and to stderr.                  *)
(***************************************************************************)
C14_ExecuteReturnsChildResult ==
    (run_pc # "idle" /\ ~self_dry_run)
        => /\ ~(ParentBlockedOnStdout /\ ChildBlockedOnStderr)
           /\ run_pc # "returned" => ENABLED NextRunner
           /\ run_pc = "returned"
                  => /\ run_result.done
                     /\ run_result.returncode = process.exit_code
                     /\ run_result.stdout = LinesTo("out")
                     /\ run_result.stderr = LinesTo("err")

====
